---------------------------- MODULE Spec2Model ----------------------------
(***************************************************************************)
(* Model of src/dokuwiki_to_japlin.py, the DokuWiki -> Markdown migrator   *)
(* (lines 1-558 of the file; the Keep-to-ENEX script that follows shares   *)
(* nothing with it).                                                       *)
(*                                                                         *)
(* A Python str is a sequence of one-character strings, so that decoding,  *)
(* query stripping, suffix handling and relative paths are computed the    *)
(* way the code computes them.  The file system is a function from         *)
(* absolute POSIX paths to file contents plus a set of directories.        *)
(* Paths follow POSIX rules (posixpath, PurePosixPath).                    *)
(***************************************************************************)
EXTENDS Integers, Sequences, FiniteSets, TLC

(***************************************************************************)
(* str primitives                                                          *)
(***************************************************************************)
\* s[i:] and s[:i] with 1-based positions
From(s, i) == IF i > Len(s) THEN <<>> ELSE SubSeq(s, i, Len(s))
Upto(s, i) == IF i < 1 THEN <<>> ELSE SubSeq(s, 1, i)

\* ch in s
Has(s, ch) == \E i \in 1..Len(s) : s[i] = ch

\* s.find(ch) as a 1-based position, 0 when absent
Find(s, ch) == IF \E i \in 1..Len(s) : s[i] = ch THEN CHOOSE i \in 1..Len(s) : s[i] = ch /\ \A j \in 1..(i-1) : s[j] # ch ELSE 0

\* s.rfind(ch) as a 1-based position, 0 when absent
RFind(s, ch) == IF \E i \in 1..Len(s) : s[i] = ch THEN CHOOSE i \in 1..Len(s) : s[i] = ch /\ \A j \in (i+1)..Len(s) : s[j] # ch ELSE 0

\* s.replace(a, b) for single characters
Replace(s, a, b) == [i \in 1..Len(s) |-> IF s[i] = a THEN b ELSE s[i]]

\* s.startswith(p), s.endswith(p)
StartsWith(s, p) == Len(s) >= Len(p) /\ SubSeq(s, 1, Len(p)) = p
EndsWith(s, p) == Len(s) >= Len(p) /\ SubSeq(s, Len(s) - Len(p) + 1, Len(s)) = p

\* s.split(ch, 1)[0] and the rest from the first ch on (empty when ch is absent)
Before(s, ch) == IF \E i \in 1..Len(s) : s[i] = ch THEN SubSeq(s, 1, Find(s, ch) - 1) ELSE s
FromFirst(s, ch) == IF \E i \in 1..Len(s) : s[i] = ch THEN SubSeq(s, Find(s, ch), Len(s)) ELSE <<>>

\* the characters str.strip() and \s treat as white space
WS == {" ", "\t", "\n"}

RECURSIVE LStrip(_)
LStrip(s) == IF s # <<>> /\ Head(s) \in WS THEN LStrip(Tail(s)) ELSE s

RECURSIVE RStrip(_)
RStrip(s) == IF s # <<>> /\ s[Len(s)] \in WS THEN RStrip(SubSeq(s, 1, Len(s) - 1)) ELSE s

\* s.strip()
Strip(s) == RStrip(LStrip(s))

\* s.split(ch): the parts between the separators, empty parts kept
RECURSIVE Split(_, _)
Split(s, ch) == IF ~Has(s, ch) THEN <<s>> ELSE <<Before(s, ch)>> \o Split(Tail(FromFirst(s, ch)), ch)

\* ch.join(parts)
RECURSIVE Join(_, _)
Join(parts, ch) == IF Len(parts) <= 1 THEN (IF parts = <<>> THEN <<>> ELSE parts[1]) ELSE parts[1] \o <<ch>> \o Join(Tail(parts), ch)

\* [x for x in parts if x not in drop]
RECURSIVE Without(_, _)
Without(parts, drop) == IF parts = <<>> THEN <<>> ELSE (IF Head(parts) \in drop THEN <<>> ELSE <<Head(parts)>>) \o Without(Tail(parts), drop)

\* str.lower(), on the upper-case letters the inputs use
LowerOf(c) == CASE c = "H" -> "h" [] c = "T" -> "t" [] c = "P" -> "p" [] c = "S" -> "s" [] c = "F" -> "f" [] c = "M" -> "m" [] c = "D" -> "d" [] OTHER -> c
Lower(s) == [i \in 1..Len(s) |-> LowerOf(s[i])]

(***************************************************************************)
(* urllib.parse.unquote: every %XX escape becomes its character, anything  *)
(* else stays literal.  HexTable holds the escapes the inputs use.         *)
(***************************************************************************)
HexTable == (<<"6", "1">> :> "a") @@ (<<"2", "E">> :> ".") @@ (<<"3", "A">> :> ":") @@ (<<"2", "3">> :> "#") @@ (<<"3", "F">> :> "?") @@ (<<"2", "5">> :> "%") @@ (<<"2", "0">> :> " ")

\* whether s starts with an escape
IsEscape(s) == Len(s) >= 3 /\ s[1] = "%" /\ <<s[2], s[3]>> \in DOMAIN HexTable

RECURSIVE unquote(_)
unquote(s) == IF s = <<>> THEN <<>> ELSE <<IF IsEscape(s) THEN HexTable[<<s[2], s[3]>>] ELSE s[1]>> \o unquote(From(s, IF IsEscape(s) THEN 4 ELSE 2))

(***************************************************************************)
(* Path normalization utilities (lines 47-87)                              *)
(***************************************************************************)
to_posix(p) == Replace(p, "\\", "/")

RECURSIVE MapUnquote(_)
MapUnquote(parts) == IF parts = <<>> THEN <<>> ELSE <<unquote(Head(parts))>> \o MapUnquote(Tail(parts))

decode_path_segments(path_like) == Join(MapUnquote(Without(Split(to_posix(path_like), "/"), {<<>>})), "/")

strip_query(s) ==
    IF ~Has(s, "?") THEN s
    ELSE IF Has(s, "#") THEN Before(Before(s, "#"), "?") \o <<"#">> \o Tail(FromFirst(s, "#"))
    ELSE Before(s, "?")

(***************************************************************************)
(* posixpath.join, normpath, abspath, relpath, dirname, basename           *)
(***************************************************************************)
\* the working directory of the process, which posixpath.abspath prepends
cwd == <<"/", "w">>

posix_join(a, b) ==
    IF StartsWith(b, <<"/">>) THEN b
    ELSE IF a = <<>> \/ EndsWith(a, <<"/">>) THEN a \o b
    ELSE a \o <<"/">> \o b

\* one pass of the loop of normpath: new_comps after the component comp
norm_step(comp, new_comps, initial_slashes) ==
    IF comp \in {<<>>, <<".">>} THEN new_comps
    ELSE IF comp # <<".", ".">> \/ (initial_slashes = 0 /\ new_comps = <<>>) \/ (new_comps # <<>> /\ new_comps[Len(new_comps)] = <<".", ".">>) THEN Append(new_comps, comp)
    ELSE IF new_comps # <<>> THEN SubSeq(new_comps, 1, Len(new_comps) - 1)
    ELSE new_comps

RECURSIVE NormComps(_, _, _)
NormComps(comps, new_comps, initial_slashes) == IF comps = <<>> THEN new_comps ELSE NormComps(Tail(comps), norm_step(Head(comps), new_comps, initial_slashes), initial_slashes)

\* POSIX keeps exactly two leading slashes and folds three or more into one
initial_slashes_of(path) == IF ~StartsWith(path, <<"/">>) THEN 0 ELSE IF StartsWith(path, <<"/", "/">>) /\ ~StartsWith(path, <<"/", "/", "/">>) THEN 2 ELSE 1

OrDot(p) == IF p = <<>> THEN <<".">> ELSE p

normpath(path) == OrDot([i \in 1..initial_slashes_of(path) |-> "/"] \o Join(NormComps(Split(path, "/"), <<>>, initial_slashes_of(path)), "/"))

abspath(path) == normpath(IF StartsWith(path, <<"/">>) THEN path ELSE posix_join(cwd, path))

\* len(commonprefix([a, b])) on lists of components
RECURSIVE CommonLen(_, _)
CommonLen(a, b) == IF a # <<>> /\ b # <<>> /\ Head(a) = Head(b) THEN 1 + CommonLen(Tail(a), Tail(b)) ELSE 0

\* [".."] * (len(start_list) - i) + path_list[i:]
rel_list(start_list, path_list, i) == [k \in 1..(Len(start_list) - i) |-> <<".", ".">>] \o From(path_list, i + 1)

relpath_lists(start_list, path_list) == OrDot(Join(rel_list(start_list, path_list, CommonLen(start_list, path_list)), "/"))

\* posixpath.relpath(path, start); path is never empty where the code calls it
relpath(path, start) == relpath_lists(Without(Split(abspath(start), "/"), {<<>>}), Without(Split(abspath(path), "/"), {<<>>}))

relposix(from_dir, to_path) == Replace(relpath(to_path, IF from_dir # <<>> THEN from_dir ELSE <<".">>), "\\", "/")

RECURSIVE RStripSlash(_)
RStripSlash(s) == IF s # <<>> /\ s[Len(s)] = "/" THEN RStripSlash(SubSeq(s, 1, Len(s) - 1)) ELSE s

\* head.rstrip("/") unless head is all slashes
dirname_head(head) == IF \E k \in 1..Len(head) : head[k] # "/" THEN RStripSlash(head) ELSE head

dirname(p) == dirname_head(Upto(p, RFind(p, "/")))

basename(p) == From(p, RFind(p, "/") + 1)

(***************************************************************************)
(* pathlib.PurePosixPath: a path is kept as its str().  Construction       *)
(* collapses repeated slashes and drops "." components; ".." stays.  (A    *)
(* path with exactly two leading slashes would keep them; no input has     *)
(* one.)                                                                   *)
(***************************************************************************)
Path(s) == OrDot((IF StartsWith(s, <<"/">>) THEN <<"/">> ELSE <<>>) \o Join(Without(Split(s, "/"), {<<>>, <<".">>}), "/"))

\* a / b
PathJoin(a, b) == IF StartsWith(b, <<"/">>) THEN Path(b) ELSE Path(a \o <<"/">> \o b)

\* Path.name: the final component
PathName(p) == IF p \in {<<".">>, <<"/">>} THEN <<>> ELSE From(p, RFind(p, "/") + 1)

\* the suffix of a name: from its last dot, unless the dot starts or ends the name
name_suffix(name) == IF 1 < RFind(name, ".") /\ RFind(name, ".") < Len(name) THEN From(name, RFind(name, ".")) ELSE <<>>

\* Path.suffix
PathSuffix(p) == name_suffix(PathName(p))

\* Path.stem: the name without its suffix
PathStem(p) == Upto(PathName(p), Len(PathName(p)) - Len(PathSuffix(p)))

\* Path.parent
PathParent(p) == IF RFind(p, "/") = 0 THEN <<".">> ELSE IF RFind(p, "/") = 1 THEN <<"/">> ELSE Upto(p, RFind(p, "/") - 1)

\* Path.with_suffix(suffix): the name with its suffix replaced (appended when it has none)
with_suffix(p, suffix) == Upto(p, Len(p) - Len(PathSuffix(p))) \o suffix

\* Path.relative_to(root) for a path built as root / rel
relative_to(p, root) == From(p, Len(root) + 2)

(***************************************************************************)
(* Faulty variants of three operations, each the way a plausible slip      *)
(* would write it. The properties below must tell them from the code.      *)
(***************************************************************************)
\* lines 213-214 with the registration left out
register_nothing(index, keys, value) == index

\* lines 248-259 with the namespace of the current page never prepended
id_of_without_namespace(t, current_id) == IF t # <<>> /\ Head(t) = ":" THEN Tail(t) ELSE t

\* lines 264-267 without the fallback: a page the index does not hold has no path
page_out_md_or_nothing(id, page_index) == IF id \in DOMAIN page_index THEN page_index[id] ELSE IF (<<":">> \o id) \in DOMAIN page_index THEN page_index[<<":">> \o id] ELSE <<>>

(***************************************************************************)
(* The file system.  A set of files d maps the absolute, resolved path of  *)
(* every file to its content; ds is a set of directories.  The operating   *)
(* system resolves ".." components when a path is used.                    *)
(***************************************************************************)
Resolve(p) == normpath(p)

\* every directory from p up to, not including, the root
RECURSIVE Ancestors(_)
Ancestors(p) == IF p \in {<<"/">>, <<".">>} THEN {} ELSE {p} \cup Ancestors(PathParent(p))

\* whether the resolved path q is a file or a directory
Exists(d, ds, q) == q \in DOMAIN d \/ q \in ds \/ q = <<"/">>

\* Path.exists()
exists(d, ds, p) == Exists(d, ds, Resolve(p))

\* Path.is_file()
is_file(d, p) == Resolve(p) \in DOMAIN d

\* safe_mkdir raises when a component of the path is a file
safe_mkdir_raises(d, p) == \E a \in Ancestors(Resolve(p)) : a \in DOMAIN d

\* the directories after safe_mkdir(p): mkdir(parents=True, exist_ok=True)
safe_mkdir(ds, p) == ds \cup Ancestors(Resolve(p))

\* the digest of a file: equal digests are taken to mean equal contents
sha256_file(d, p) == d[Resolve(p)]

\* st_size
st_size(d, p) == Len(d[Resolve(p)])

\* the files of d with the file at the resolved path q holding content
Store(d, q, content) == [x \in DOMAIN d \cup {q} |-> IF x = q THEN content ELSE d[x]]

\* whether copy_file_if_changed(src, dst) reaches a shutil.copy2 (lines 112-125)
copy_needed(d, src, dst) == ~is_file(d, dst) \/ ~(st_size(d, src) = st_size(d, dst) /\ sha256_file(d, src) = sha256_file(d, dst))

\* the files after copy_file_if_changed(src, dst)
copy_file_if_changed(d, src, dst) == IF copy_needed(d, src, dst) THEN Store(d, Resolve(dst), d[Resolve(src)]) ELSE d

\* whether write_text_if_changed(dst, text) reaches dst.write_text (lines 94-103)
write_needed(d, dst, text) == ~(is_file(d, dst) /\ d[Resolve(dst)] = text)

\* the files after write_text_if_changed(dst, text)
write_text_if_changed(d, dst, text) == IF write_needed(d, dst, text) THEN Store(d, Resolve(dst), text) ELSE d

(***************************************************************************)
(* unique_path_if_needed (lines 128-144)                                   *)
(***************************************************************************)
\* the exclusive upper end of range(1, 10_000), scaled down
DupLimit == 3

\* str(i) of a positive integer
RECURSIVE DecStr(_)
DecStr(i) == (IF i < 10 THEN <<>> ELSE DecStr(i \div 10)) \o <<(<<"0", "1", "2", "3", "4", "5", "6", "7", "8", "9">>)[(i % 10) + 1]>>

\* parent / f"{stem}__dup{i}{suffix}"
dup_candidate(dst, i) == PathJoin(PathParent(dst), PathStem(dst) \o <<"_", "_", "d", "u", "p">> \o DecStr(i) \o PathSuffix(dst))

\* the suffixes range(1, 10_000) offers whose candidate does not exist
free_dups(d, ds, dst) == {i \in 1..(DupLimit - 1) : ~exists(d, ds, dup_candidate(dst, i))}

\* the RuntimeError of line 144: dst and every candidate exist
unique_path_raises(d, ds, dst) == exists(d, ds, dst) /\ free_dups(d, ds, dst) = {}

\* the least member of a non-empty set of integers
Min(S) == CHOOSE i \in S : \A j \in S : i <= j

\* the path returned: dst when it does not exist, else the first free candidate
unique_path_if_needed(d, ds, dst) == IF ~exists(d, ds, dst) THEN dst ELSE dup_candidate(dst, Min(free_dups(d, ds, dst)))

(***************************************************************************)
(* Reference resolver (lines 219-302): page targets and media targets.     *)
(* An index is a function from keys to output relative paths.              *)
(***************************************************************************)
IMAGE_EXTS == {<<".", "p", "n", "g">>, <<".", "j", "p", "g">>, <<".", "j", "p", "e", "g">>, <<".", "g", "i", "f">>, <<".", "b", "m", "p">>, <<".", "w", "e", "b", "p">>, <<".", "s", "v", "g">>}

MD == <<".", "m", "d">>

\* re.sub(r"\s+", " ", s): every run of white space becomes one space
RECURSIVE CollapseWS(_)
CollapseWS(s) == IF s = <<>> THEN <<>> ELSE <<IF Head(s) \in WS THEN " " ELSE Head(s)>> \o CollapseWS(IF Head(s) \in WS THEN LStrip(s) ELSE Tail(s))

\* ":" + x unless x already starts with ":"
WithColon(x) == IF StartsWith(x, <<":">>) THEN x ELSE <<":">> \o x

current_page_id_from_rel(rel_md_posix) == Replace(IF EndsWith(Lower(rel_md_posix), MD) THEN Upto(rel_md_posix, Len(rel_md_posix) - 3) ELSE rel_md_posix, "/", ":")

\* lines 236-238: the target stripped, decoded, its query removed
target_clean(raw_target) == strip_query(unquote(Strip(raw_target)))

\* lines 240-243: the part before the first "#", and the anchor with its "#"
target_base(raw_target) == Before(target_clean(raw_target), "#")
target_anchor(raw_target) == FromFirst(target_clean(raw_target), "#")

\* line 258: the namespace of the current page
namespace_of(current_id) == IF Has(current_id, ":") THEN Upto(current_id, RFind(current_id, ":") - 1) ELSE <<>>

\* lines 248-259 on t, the non-empty target before its anchor
id_of(t, current_id) ==
    IF StartsWith(t, <<":">>) THEN Tail(t)
    ELSE IF Has(t, ":") THEN t
    ELSE IF namespace_of(current_id) # <<>> THEN namespace_of(current_id) \o <<":">> \o t
    ELSE t

\* lines 248-262: the page identifier a target names on the page current_id
resolved_id(raw_target, current_id) == Strip(CollapseWS(id_of(target_base(raw_target), current_id)))

\* lines 264-267: the index entry of the identifier, bare then colon-prefixed, else a path made from it
page_out_md(id, page_index) ==
    IF id \in DOMAIN page_index /\ page_index[id] # <<>> THEN page_index[id]
    ELSE IF (<<":">> \o id) \in DOMAIN page_index THEN page_index[<<":">> \o id]
    ELSE Replace(id, ":", "/") \o MD

resolve_page_target(raw_target, current_id, page_index) ==
    IF target_base(raw_target) = <<>> THEN <<>>
    ELSE Replace(page_out_md(resolved_id(raw_target, current_id), page_index), "\\", "/") \o target_anchor(raw_target)

\* lines 290-300 on the target before its anchor
media_path_of(t) == strip_query(decode_path_segments(Replace(to_posix(IF StartsWith(t, <<":">>) THEN Tail(t) ELSE t), ":", "/")))

normalize_media_target(raw_target) == media_path_of(target_base(raw_target)) \o target_anchor(raw_target)

(***************************************************************************)
(* convert_dokuwiki_to_markdown (lines 312-496)                            *)
(***************************************************************************)
\* re.match(r"^(https?|ftp)://", s, flags=re.IGNORECASE)
has_scheme(low) == StartsWith(low, <<"h", "t", "t", "p", ":", "/", "/">>) \/ StartsWith(low, <<"h", "t", "t", "p", "s", ":", "/", "/">>) \/ StartsWith(low, <<"f", "t", "p", ":", "/", "/">>)
is_external(s) == has_scheme(Lower(s))

\* the entry of the first key of the list that the index holds, as a one-element sequence, or <<>>
RECURSIVE first_hit(_, _)
first_hit(keys, index) == IF keys = <<>> THEN <<>> ELSE IF Head(keys) \in DOMAIN index THEN <<index[Head(keys)]>> ELSE first_hit(Tail(keys), index)

\* lines 356-359 for one candidate c: its colon form and its slash form, each also with a leading colon
candidate_forms(c) == <<Replace(c, "/", ":"), WithColon(Replace(c, "/", ":")), Replace(c, ":", "/"), WithColon(Replace(c, ":", "/"))>>

RECURSIVE more_candidates(_)
more_candidates(cs) == IF cs = <<>> THEN <<>> ELSE candidate_forms(Head(cs)) \o more_candidates(Tail(cs))

\* lines 349-353: the first four candidates
first_candidates(normalized_key, normalized) == <<normalized_key, WithColon(normalized_key), normalized, WithColon(normalized)>>

\* lines 355-359: the candidates with the forms of the first four appended
all_candidates(first) == first \o more_candidates(first)

\* line 345-346
normalized_key_of(left) == Strip(strip_query(unquote(Strip(left))))

\* lines 345-359: the keys repl_media probes, in order
media_candidates(left) == all_candidates(first_candidates(normalized_key_of(left), normalize_media_target(normalized_key_of(left))))

RECURSIVE MapStripQuery(_)
MapStripQuery(keys) == IF keys = <<>> THEN <<>> ELSE <<strip_query(Head(keys))>> \o MapStripQuery(Tail(keys))

\* the hit when there is one, else the fallback path without its anchor
hit_or(hit, fallback) == IF hit # <<>> THEN hit[1] ELSE Before(fallback, "#")

\* lines 361-372: the output media path of an embed target
media_out_rel(left, media_index) == hit_or(first_hit(MapStripQuery(media_candidates(left)), media_index), normalize_media_target(left))

\* lines 382-383 and 453-454: the link from the note's directory to media/<out_media_rel>
media_rel(current_dir, out_media_rel) == relposix(current_dir, normpath(posix_join(<<".", ".", "/", "m", "e", "d", "i", "a">>, out_media_rel)))

md_image(alt, rel) == <<"!", "[">> \o alt \o <<"]", "(">> \o rel \o <<")">>
md_link(label, rel) == <<"[">> \o label \o <<"]", "(">> \o rel \o <<")">>

\* lines 385-392: an image embed for an image extension, else a link labelled with the base name
render_media(out_media_rel, rel) == IF Lower(PathSuffix(Path(out_media_rel))) \in IMAGE_EXTS THEN md_image(<<>>, rel) ELSE md_link(basename(out_media_rel), rel)

\* lines 374-392
embed_resolved(out_media_rel, current_dir) == render_media(out_media_rel, media_rel(current_dir, out_media_rel))

\* lines 337-392 on left, the target of the embed
repl_media_left(left, current_dir, media_index) ==
    IF left = <<>> THEN <<>>
    ELSE IF is_external(left) THEN left
    ELSE embed_resolved(media_out_rel(left, media_index), current_dir)

\* repl_media (lines 331-392) on the text between {{ and }}
repl_media(group1, current_dir, media_index) == repl_media_left(Strip(Before(Strip(group1), "|")), current_dir, media_index)

\* lines 437, 441, 443: x with a colon put before it unless t_norm opens with one
colon_unless(t_norm, x) == IF ~StartsWith(t_norm, <<":">>) THEN <<":">> \o x ELSE x

\* lines 435-444: the keys repl_link probes for an attachment target
link_media_keys(t_norm, media_target) ==
    << strip_query(t_norm),
       strip_query(colon_unless(t_norm, t_norm)),
       strip_query(media_target),
       strip_query(colon_unless(media_target, media_target)),
       strip_query(Replace(t_norm, ":", "/")),
       strip_query(colon_unless(t_norm, Replace(t_norm, ":", "/"))),
       strip_query(Replace(t_norm, "/", ":")),
       strip_query(colon_unless(t_norm, Replace(t_norm, "/", ":"))) >>

\* lines 397-404: target and title of "target|title"
link_target(inner) == Strip(Before(inner, "|"))
link_title(inner) == IF Has(inner, "|") THEN Strip(Tail(FromFirst(inner, "|"))) ELSE <<>>

\* lines 417-429: the decoded target, its part before the anchor, its extension
link_t_norm(target) == Strip(unquote(strip_query(target)))
link_t_norm_base(target) == Before(link_t_norm(target), "#")
link_ext(target) == Lower(PathSuffix(Path(link_t_norm_base(target))))

\* line 431: whether the link is treated as a media/attachment reference
has_media_ext(ext) == ext # <<>> /\ ext # MD
is_media_link(target) == has_media_ext(link_ext(target))

\* lines 456-460
render_link_media(is_image, title, out_media_rel, rel) == IF is_image THEN md_image(title, rel) ELSE md_link(IF title # <<>> THEN title ELSE basename(out_media_rel), rel)

\* lines 453-460
link_media_resolved(is_image, title, out_media_rel, current_dir) == render_link_media(is_image, title, out_media_rel, media_rel(current_dir, out_media_rel))

\* lines 433-451: the output media path of an attachment link
link_media_out_rel(t_norm, media_index) == hit_or(first_hit(link_media_keys(t_norm, normalize_media_target(t_norm)), media_index), normalize_media_target(t_norm))

\* lines 432-460: the attachment branch of repl_link
repl_link_media(target, title, current_dir, media_index) == link_media_resolved(link_ext(target) \in IMAGE_EXTS, title, link_media_out_rel(link_t_norm(target), media_index), current_dir)

\* lines 477-480: the label of a page link without a title
page_label(t_norm_base) == IF Has(t_norm_base, ":") THEN From(t_norm_base, RFind(t_norm_base, ":") + 1) ELSE PathName(Path(t_norm_base))

\* lines 469-475: the link path, relative to the note's directory, with the anchor put back
page_rel_link(target_md_rel, current_dir) == relposix(current_dir, Before(target_md_rel, "#")) \o FromFirst(target_md_rel, "#")

\* lines 464-481
render_page_link(target_md_rel, label, title, current_dir) == IF target_md_rel = <<>> THEN title ELSE md_link(label, page_rel_link(target_md_rel, current_dir))

\* lines 462-481: the page branch of repl_link
repl_link_page(target, title, current_dir, current_id, page_index) == render_page_link(resolve_page_target(link_t_norm(target), current_id, page_index), IF title # <<>> THEN title ELSE page_label(link_t_norm_base(target)), title, current_dir)

\* lines 406-481 on the target and title of the link
repl_link_parts(target, title, current_dir, current_id, page_index, media_index) ==
    IF target = <<>> THEN title
    ELSE IF is_external(target) THEN md_link(IF title # <<>> THEN title ELSE target, target)
    ELSE IF is_media_link(target) THEN repl_link_media(target, title, current_dir, media_index)
    ELSE repl_link_page(target, title, current_dir, current_id, page_index)

\* repl_link (lines 394-481) on the text between [[ and ]]
repl_link(group1, current_dir, current_id, page_index, media_index) == repl_link_parts(link_target(Strip(group1)), link_title(Strip(group1)), current_dir, current_id, page_index, media_index)

\* where the construct opening text closes: the position, counted after the opening pair, of the
\* first closing character, when text opens with the pair and the closing character is doubled; else 0
match_close(text, open, close) ==
    IF Len(text) >= 2 /\ text[1] = open /\ text[2] = open /\ Find(From(text, 3), close) > 1 /\ Len(text) >= Find(From(text, 3), close) + 3
    THEN (IF text[Find(From(text, 3), close) + 3] = close THEN Find(From(text, 3), close) ELSE 0)
    ELSE 0

\* RE_DOKU_MEDIA.sub(repl_media, text): \{\{([^}]+?)\}\} matched left to right
RECURSIVE sub_media(_, _, _)
sub_media(text, current_dir, media_index) ==
    IF Len(text) < 2 THEN text
    ELSE (IF match_close(text, "{", "}") > 0 THEN repl_media(SubSeq(text, 3, match_close(text, "{", "}") + 1), current_dir, media_index) ELSE <<Head(text)>>)
         \o sub_media(From(text, IF match_close(text, "{", "}") > 0 THEN match_close(text, "{", "}") + 4 ELSE 2), current_dir, media_index)

\* RE_DOKU_LINK.sub(repl_link, text): \[\[([^\]]+?)\]\] matched left to right
RECURSIVE sub_link(_, _, _, _, _)
sub_link(text, current_dir, current_id, page_index, media_index) ==
    IF Len(text) < 2 THEN text
    ELSE (IF match_close(text, "[", "]") > 0 THEN repl_link(SubSeq(text, 3, match_close(text, "[", "]") + 1), current_dir, current_id, page_index, media_index) ELSE <<Head(text)>>)
         \o sub_link(From(text, IF match_close(text, "[", "]") > 0 THEN match_close(text, "[", "]") + 4 ELSE 2), current_dir, current_id, page_index, media_index)

\* the length of the leading run of spaces and tabs of s
RECURSIVE BlankRun(_)
BlankRun(s) == IF s # <<>> /\ Head(s) \in {" ", "\t"} THEN 1 + BlankRun(Tail(s)) ELSE 0

\* RE_MULTISPACE.sub(" ", text): [ \t]{2,} becomes one space
RECURSIVE sub_multispace(_)
sub_multispace(text) == IF text = <<>> THEN <<>> ELSE <<IF BlankRun(text) >= 2 THEN " " ELSE Head(text)>> \o sub_multispace(From(text, IF BlankRun(text) >= 2 THEN BlankRun(text) + 1 ELSE 2))

\* whether text opens with blanks that run up to a line end
blank_to_eol(text, n) == n >= 1 /\ Len(text) > n /\ text[n + 1] = "\n"

\* re.sub(r"[ \t]+\n", "\n", text): blanks before a line end are dropped
RECURSIVE sub_trailing(_)
sub_trailing(text) == IF text = <<>> THEN <<>> ELSE (IF blank_to_eol(text, BlankRun(text)) THEN <<>> ELSE Upto(text, IF BlankRun(text) >= 1 THEN BlankRun(text) ELSE 1)) \o sub_trailing(From(text, IF BlankRun(text) >= 1 THEN BlankRun(text) + 1 ELSE 2))

\* lines 483-496 with the note's directory and identifier at hand
convert_in(text, current_dir, current_id, page_index, media_index) == Replace(sub_trailing(sub_multispace(sub_link(sub_media(text, current_dir, media_index), current_dir, current_id, page_index, media_index))), "\\", "/")

\* read_text gives the text with universal newlines, so line 322 finds nothing to replace
convert_dokuwiki_to_markdown(text, current_note_rel_md_posix, page_index, media_index) == convert_in(text, dirname(current_note_rel_md_posix), current_page_id_from_rel(current_note_rel_md_posix), page_index, media_index)

(***************************************************************************)
(* The roots migrate is called with: the source page tree, the source      *)
(* media tree and the output root, three sibling directories as in the     *)
(* defaults of main (lines 540-542).                                       *)
(***************************************************************************)
pages_root == <<"/", "p", "a", "g", "e", "s">>
media_root == <<"/", "m", "e", "d", "i", "a">>
out_root == <<"/", "o", "u", "t">>
out_notes == PathJoin(out_root, <<"n", "o", "t", "e", "s">>)
out_media == PathJoin(out_root, <<"m", "e", "d", "i", "a">>)

\* whether the file or directory q lies under the directory root
Under(q, root) == StartsWith(q, root \o <<"/">>)

\* root.rglob("*") restricted to files
rglob_files(d, root) == {q \in DOMAIN d : Under(q, root)}

\* pages_root.rglob("*.txt")
rglob_txt(d, root) == {q \in rglob_files(d, root) : EndsWith(q, <<".", "t", "x", "t">>)}

(***************************************************************************)
(* build_page_index (lines 147-163)                                        *)
(***************************************************************************)
\* lines 155-158: the identifier of the page file src
dokuwiki_id(src) == Replace(to_posix(with_suffix(relative_to(src, pages_root), <<>>)), "/", ":")

\* line 159: the output path the index records for the page file src
out_md_rel(src) == to_posix(with_suffix(relative_to(src, pages_root), <<>>)) \o <<".", "m", "d">>

\* lines 160-161: the two keys of the page file src
page_keys(src) == {dokuwiki_id(src), <<":">> \o dokuwiki_id(src)}

\* lines 153-162 over the listed page files
page_index_of(pages) == [k \in UNION {page_keys(src) : src \in pages} |-> out_md_rel(CHOOSE src \in pages : k \in page_keys(src))]

build_page_index(d) == page_index_of(rglob_txt(d, pages_root))

(***************************************************************************)
(* build_media_index_and_copy (lines 166-216), one source file at a time   *)
(***************************************************************************)
\* lines 177-178
rel_src_posix(src) == to_posix(relative_to(src, media_root))

\* lines 180-182
rel_decoded_posix(src) == strip_query(decode_path_segments(rel_src_posix(src)))

\* line 184: the candidate output path
media_dst(src) == PathJoin(out_media, Path(rel_decoded_posix(src)))

\* line 190
out_rel_posix_final(dst_unique) == to_posix(relative_to(dst_unique, out_media))

\* the four keys registered for one spelling x of the relative path (lines 196-199, 202-205, 208-211)
four_keys(x) == {strip_query(x), strip_query(<<":">> \o x), strip_query(Replace(x, "/", ":")), strip_query(<<":">> \o Replace(x, "/", ":"))}

\* lines 193-211: the keys registered for a source file
key_variants(src) == four_keys(rel_src_posix(src)) \cup four_keys(rel_decoded_posix(src)) \cup four_keys(unquote(rel_src_posix(src)))

\* lines 213-214
register(index, keys, value) == [k \in DOMAIN index \cup keys |-> IF k \in keys THEN value ELSE index[k]]

(***************************************************************************)
(* migrate (lines 499-533): the position of the page loop                  *)
(***************************************************************************)
\* lines 514-518
rel_md_posix(src) == to_posix(with_suffix(with_suffix(relative_to(src, pages_root), <<>>), <<".", "m", "d">>))

\* line 519
note_dst(src) == PathJoin(out_notes, rel_md_posix(src))

(***************************************************************************)
(* The inputs: the source trees the runs start from.                       *)
(***************************************************************************)
\* the number of runs of migrate a behaviour makes
MaxRuns == 2

page_a == pages_root \o <<"/", "a", ".", "t", "x", "t">>
page_ab == pages_root \o <<"/", "a", ".", "b", ".", "t", "x", "t">>
page_np == pages_root \o <<"/", "n", "/", "p", ".", "t", "x", "t">>

\* the page files a source tree may hold, with their text
PageFiles == (page_a :> <<"{", "{", "a", ".", "p", "n", "g", "}", "}">>) @@ (page_ab :> <<"[", "[", "a", "]", "]">>) @@ (page_np :> <<"[", "[", "c", "]", "]">>)

media_a == media_root \o <<"/", "a", ".", "p", "n", "g">>
media_enc == media_root \o <<"/", "%", "6", "1", ".", "p", "n", "g">>
media_up_pages == media_root \o <<"/", "%", "2", "E", "%", "2", "E", "/", "%", "2", "E", "%", "2", "E", "/", "p", "a", "g", "e", "s", "/", "q", ".", "t", "x", "t">>
media_up_notes == media_root \o <<"/", "%", "2", "E", "%", "2", "E", "/", "n", "o", "t", "e", "s", "/", "a", ".", "m", "d">>
media_up_notes_enc == media_root \o <<"/", "%", "2", "E", "%", "2", "E", "/", "n", "o", "t", "e", "s", "/", "%", "6", "1", ".", "m", "d">>

\* the media files a source tree may hold, with their contents
MediaFiles == (media_a :> <<"1">>) @@ (media_enc :> <<"2">>) @@ (media_up_pages :> <<"3">>) @@ (media_up_notes :> <<"4">>) @@ (media_up_notes_enc :> <<"5">>)

\* the tree of the page files P and the media files M; with enc_same the file %61.png holds the bytes of a.png
SourceTree(P, M, enc_same) == [q \in P \cup M |-> IF q \in P THEN PageFiles[q] ELSE IF q = media_enc /\ enc_same THEN MediaFiles[media_a] ELSE MediaFiles[q]]

\* the most page files and the most media files of a source tree
MaxPages == 2
MaxMedia == 2

\* the source trees: up to MaxPages of the page files and up to MaxMedia of the media files
SourceTrees == {SourceTree(P, M, e) : P \in {X \in SUBSET DOMAIN PageFiles : Cardinality(X) <= MaxPages}, M \in {X \in SUBSET DOMAIN MediaFiles : Cardinality(X) <= MaxMedia}, e \in BOOLEAN}

\* the directories of a tree of files, with the two source roots
DirsOf(d) == UNION {Ancestors(PathParent(q)) : q \in DOMAIN d} \cup {pages_root, media_root}

(***************************************************************************)
(* State                                                                   *)
(***************************************************************************)
VARIABLES
    disk,         \* the files: resolved absolute path -> content
    dirs,         \* the directories
    status,       \* where migrate is: "idle", "media", "pages", "done", "io_error", "collision_error"
    runs,         \* the number of runs started
    page_index,   \* migrate's page_index
    media_index,  \* build_media_index_and_copy's idx, then migrate's media_index
    media_todo,   \* the source media files the loop of line 173 has yet to visit
    pages_todo,   \* the source page files the loop of line 513 has yet to visit
    assigned,     \* this run: source media file -> its dst, dst_unique and what was found at dst
    converted,    \* this run: source page file -> its dst and converted text
    failed,       \* the source file whose read or copy raised in this run, <<>> when none
    copies,       \* this run: the number of shutil.copy2 calls
    writes,       \* this run: the number of write_text calls
    src0,         \* the source trees before the first run
    run0,         \* the files when this run started
    prev,         \* how the previous run ended, "none" before the second run
    probe,        \* the link construct under resolution outside a run, <<>> when none
    resolved,     \* what resolve_page_target made of the probe, <<>> before it is called
    emitted,      \* what repl_link made of the probe, <<>> before it is called
    embedded      \* what repl_media made of the probe's text, <<>> before it is called

vars == <<disk, dirs, status, runs, page_index, media_index, media_todo, pages_todo, assigned, converted, failed, copies, writes, src0, run0, prev, probe, resolved, emitted, embedded>>

\* the variables of the link probe
link_vars == <<probe, resolved, emitted, embedded>>

\* the files of d under the two source roots
Sources(d) == [q \in {q \in DOMAIN d : Under(q, pages_root) \/ Under(q, media_root)} |-> d[q]]

Init ==
    /\ disk \in SourceTrees
    /\ dirs = DirsOf(disk)
    /\ status = "idle"
    /\ runs = 0
    /\ page_index = <<>>
    /\ media_index = <<>>
    /\ media_todo = {}
    /\ pages_todo = {}
    /\ assigned = <<>>
    /\ converted = <<>>
    /\ failed = <<>>
    /\ copies = 0
    /\ writes = 0
    /\ src0 = disk
    /\ run0 = disk
    /\ prev = "none"
    /\ probe = <<>>
    /\ resolved = <<>>
    /\ emitted = <<>>
    /\ embedded = <<>>

\* the page loop starts: line 513 lists the page files there are now
EnterPages(d) ==
    /\ pages_todo' = rglob_txt(d, pages_root)
    /\ status' = IF rglob_txt(d, pages_root) = {} THEN "done" ELSE "pages"

\* migrate is called (lines 499-510 up to the first source media file)
StartRun ==
    /\ status \in {"idle", "done", "io_error", "collision_error"}
    /\ runs < MaxRuns
    /\ runs' = runs + 1
    /\ prev' = IF runs = 0 THEN "none" ELSE status
    /\ run0' = disk
    /\ dirs' = safe_mkdir(safe_mkdir(dirs, out_notes), out_media)
    /\ page_index' = build_page_index(disk)
    /\ media_index' = <<>>
    /\ media_todo' = rglob_files(disk, media_root)
    /\ assigned' = <<>>
    /\ converted' = <<>>
    /\ failed' = <<>>
    /\ copies' = 0
    /\ writes' = 0
    /\ IF rglob_files(disk, media_root) = {} THEN EnterPages(disk) ELSE status' = "media" /\ pages_todo' = {}
    /\ UNCHANGED <<disk, src0, link_vars>>

\* lines 186-214 for the source file src, its candidate dst and the path dst_unique it is given
CopyMediaTo(src, dst, dst_unique) ==
    /\ ~safe_mkdir_raises(disk, PathParent(dst_unique))
    /\ dirs' = safe_mkdir(dirs, PathParent(dst_unique))
    /\ disk' = copy_file_if_changed(disk, src, dst_unique)
    /\ copies' = copies + (IF copy_needed(disk, src, dst_unique) THEN 1 ELSE 0)
    /\ media_index' = register(media_index, key_variants(src), out_rel_posix_final(dst_unique))
    /\ assigned' = (src :> [dst |-> Resolve(dst), final |-> Resolve(dst_unique), same |-> is_file(disk, dst) /\ disk[Resolve(dst)] = disk[src]]) @@ assigned
    /\ media_todo' = media_todo \ {src}
    /\ IF media_todo = {src} THEN EnterPages(disk') ELSE UNCHANGED <<status, pages_todo>>

\* one pass of the loop of lines 173-214 that ends normally
CopyMedia(src) ==
    /\ status = "media"
    /\ src \in media_todo
    /\ ~unique_path_raises(disk, dirs, media_dst(src))
    /\ CopyMediaTo(src, media_dst(src), unique_path_if_needed(disk, dirs, media_dst(src)))
    /\ UNCHANGED <<runs, page_index, converted, failed, writes, src0, run0, prev, link_vars>>

\* unique_path_if_needed raises the RuntimeError of line 144, which ends the run
CopyMediaCollision(src) ==
    /\ status = "media"
    /\ src \in media_todo
    /\ unique_path_raises(disk, dirs, media_dst(src))
    /\ status' = "collision_error"
    /\ failed' = src
    /\ UNCHANGED <<disk, dirs, runs, page_index, media_index, media_todo, pages_todo, assigned, converted, copies, writes, src0, run0, prev, link_vars>>

\* safe_mkdir or shutil.copy2 raises an OSError; nothing catches it and the run ends
CopyMediaFails(src) ==
    /\ status = "media"
    /\ src \in media_todo
    /\ ~unique_path_raises(disk, dirs, media_dst(src))
    /\ status' = "io_error"
    /\ failed' = src
    /\ UNCHANGED <<disk, dirs, runs, page_index, media_index, media_todo, pages_todo, assigned, converted, copies, writes, src0, run0, prev, link_vars>>

\* lines 532-533 for the page file src: its text goes to dst
WritePage(src, dst, text) ==
    /\ ~(write_needed(disk, dst, text) /\ safe_mkdir_raises(disk, PathParent(dst)))
    /\ disk' = write_text_if_changed(disk, dst, text)
    /\ dirs' = IF write_needed(disk, dst, text) THEN safe_mkdir(dirs, PathParent(dst)) ELSE dirs
    /\ writes' = writes + (IF write_needed(disk, dst, text) THEN 1 ELSE 0)
    /\ converted' = (src :> [dst |-> Resolve(dst), text |-> text]) @@ converted

\* one pass of the loop of lines 513-533 that ends normally
ConvertPage(src) ==
    /\ status = "pages"
    /\ src \in pages_todo
    /\ WritePage(src, note_dst(src), convert_dokuwiki_to_markdown(disk[src], rel_md_posix(src), page_index, media_index))
    /\ pages_todo' = pages_todo \ {src}
    /\ status' = IF pages_todo = {src} THEN "done" ELSE "pages"
    /\ UNCHANGED <<runs, page_index, media_index, media_todo, assigned, failed, copies, src0, run0, prev, link_vars>>

\* src.read_text or the write raises an OSError; nothing catches it and the run ends
ReadPageFails(src) ==
    /\ status = "pages"
    /\ src \in pages_todo
    /\ status' = "io_error"
    /\ failed' = src
    /\ UNCHANGED <<disk, dirs, runs, page_index, media_index, media_todo, pages_todo, assigned, converted, copies, writes, src0, run0, prev, link_vars>>

Next ==
    \/ StartRun
    \/ \E src \in media_todo : CopyMedia(src)
    \/ \E src \in media_todo : CopyMediaCollision(src)
    \/ \E src \in media_todo : CopyMediaFails(src)
    \/ \E src \in pages_todo : ConvertPage(src)
    \/ \E src \in pages_todo : ReadPageFails(src)

Spec == Init /\ [][Next]_vars

(***************************************************************************)
(* Link resolution on its own: repl_link (lines 394-481) and               *)
(* resolve_page_target (lines 227-269) applied to one link construct of a  *)
(* page, with a page index built from a tree of page files, and           *)
(* repl_media (lines 331-392) applied to the same text as an embed.        *)
(***************************************************************************)
\* the texts between [[ and ]] that are probed
LinkTexts == {<<"c">>, <<"c", "#", "s", "e", "c">>, <<":", "x", ":", "y">>, <<"x", ":", "y">>, <<"a">>, <<":", "a">>, <<"n", ":", "p">>, <<"c", "?", "x">>, <<" ", "c", " ">>, <<"x", " ", " ", "y">>, <<"%", "6", "1">>, <<"#", "s", "e", "c">>, <<"p", "a", "g", "e", ".", "v", "2">>, <<"d", "o", "c", ".", "p", "d", "f">>, <<"a", ".", "m", "d">>, <<"h", "t", "t", "p", ":", "/", "/", "x">>, <<"c", "|", "T">>, <<"a", ":", "b", ":", "c">>, <<"a", ".", "p", "n", "g", "|", "T">>, <<"a", ".", "p", "n", "g">>, <<"n", ":", "d", ".", "p", "d", "f">>, <<"a", ".", "p", "n", "g", "%", "3", "F", "8", "0", "0">>}

\* the output paths of the notes that hold the link
LinkNotes == {<<"a", "/", "b", "/", "p", "a", "g", "e", ".", "m", "d">>, <<"p", "a", "g", "e", ".", "m", "d">>, <<"n", "/", "p", ".", "m", "d">>}

\* the page trees the index is built from
LinkPageSets == {{}, {page_a, page_np}, {pages_root \o <<"/", "a", "/", "b", "/", "c", ".", "t", "x", "t">>, pages_root \o <<"/", "x", "/", "y", ".", "t", "x", "t">>}}

\* the media indices: none, and the one left by the scan of a.png and then %61.png
LinkMediaIndexes == {<<>>, register(register(<<>>, key_variants(media_a), <<"a", ".", "p", "n", "g">>), key_variants(media_enc), <<"a", "_", "_", "d", "u", "p", "1", ".", "p", "n", "g">>)}

\* the probes: a link text, the note it stands in, the page index and the media index of the run
Probes == [text : LinkTexts, note : LinkNotes, index : {page_index_of(P) : P \in LinkPageSets}, media : LinkMediaIndexes]

\* the target of the probe as repl_link hands it to resolve_page_target (lines 395-418)
probe_target(p) == link_target(Strip(p.text))
probe_t_norm(p) == link_t_norm(probe_target(p))
probe_id(p) == current_page_id_from_rel(p.note)

\* no run of migrate is under way
NoRun ==
    /\ disk = <<>>
    /\ dirs = {}
    /\ status = "idle"
    /\ runs = 0
    /\ page_index = <<>>
    /\ media_index = <<>>
    /\ media_todo = {}
    /\ pages_todo = {}
    /\ assigned = <<>>
    /\ converted = <<>>
    /\ failed = <<>>
    /\ copies = 0
    /\ writes = 0
    /\ src0 = <<>>
    /\ run0 = <<>>
    /\ prev = "none"

run_vars == <<disk, dirs, status, runs, page_index, media_index, media_todo, pages_todo, assigned, converted, failed, copies, writes, src0, run0, prev>>

LinkInit ==
    /\ NoRun
    /\ probe \in Probes
    /\ resolved = <<>>
    /\ emitted = <<>>
    /\ embedded = <<>>

\* resolve_page_target is called on the probe's target (line 463)
ResolveTarget ==
    /\ probe # <<>>
    /\ resolved = <<>>
    /\ resolved' = <<[id |-> resolved_id(probe_t_norm(probe), probe_id(probe)), out_md |-> resolve_page_target(probe_t_norm(probe), probe_id(probe), probe.index)]>>
    /\ UNCHANGED <<run_vars, probe, emitted, embedded>>

\* repl_link is called on the probe (line 487)
ReplaceLink ==
    /\ probe # <<>>
    /\ emitted = <<>>
    /\ emitted' = <<repl_link(probe.text, dirname(probe.note), probe_id(probe), probe.index, probe.media)>>
    /\ UNCHANGED <<run_vars, probe, resolved, embedded>>

\* repl_media is called on the probe's text, written as an embed (line 484)
ReplaceMedia ==
    /\ probe # <<>>
    /\ embedded = <<>>
    /\ embedded' = <<repl_media(probe.text, dirname(probe.note), probe.media)>>
    /\ UNCHANGED <<run_vars, probe, resolved, emitted>>

LinkNext ==
    \/ ResolveTarget
    \/ ReplaceLink
    \/ ReplaceMedia

LinkSpec == LinkInit /\ [][LinkNext]_vars

(***************************************************************************)
(* Properties of the runs of migrate                                       *)
(***************************************************************************)
\* the files of d under the output root
Outputs(d) == [q \in {q \in DOMAIN d : Under(q, out_root)} |-> d[q]]

\* the run of migrate has ended, normally or with an exception
Ended == status \in {"done", "io_error", "collision_error"}

\* the source media files and the source page files the run met when it started
run_media == rglob_files(run0, media_root)
run_pages == rglob_txt(run0, pages_root)

\* C1: a second run over unchanged inputs and the output of a completed first run leaves the
\* output tree as it was and makes no write and no copy
C1_Idempotent == (runs >= 2 /\ prev = "done" /\ status = "done" /\ Sources(run0) = src0) => (copies = 0 /\ writes = 0 /\ Outputs(disk) = Outputs(run0))

\* C2: a source media file whose candidate output path already holds the same bytes is
\* registered at the candidate path itself, without a disambiguation suffix
C2_NoSuffixWhenIdentical == \A s \in DOMAIN assigned : assigned[s].same => assigned[s].final = assigned[s].dst

\* the two source media files hold different bytes and decode to the same output name
Colliding(s, t) == s # t /\ disk[s] # disk[t] /\ assigned[s].dst = assigned[t].dst

\* the output file at the path assigned to s holds the bytes of s
HoldsOwn(s) == assigned[s].final \in DOMAIN disk /\ disk[assigned[s].final] = disk[s]

\* C3: after a run, two source media files with different content that decode to the same
\* output name have different output paths, and each path holds the bytes of its own source
C3_DistinctPathsOwnContent == status = "done" => \A s \in DOMAIN assigned : \A t \in DOMAIN assigned : Colliding(s, t) => (assigned[s].final # assigned[t].final /\ HoldsOwn(s) /\ HoldsOwn(t))

\* the note of the page p is on disk with the text converted from p
NoteWritten(p) == p \in DOMAIN converted /\ converted[p].dst \in DOMAIN disk /\ disk[converted[p].dst] = converted[p].text

\* C4: after a run that completes, every source page has its own output note: the note holds
\* the page's converted text and no two pages share a note path
C4_OneNotePerPage == status = "done" => \A p \in run_pages : NoteWritten(p) /\ \A q \in run_pages \ {p} : q \in DOMAIN converted /\ converted[q].dst # converted[p].dst

\* C5: a read or copy failure on one item does not abort the run, and when the run has ended
\* every other media file has been copied and every other page converted
C5_FailureContained == failed # <<>> /\ status # "collision_error" => status # "io_error" /\ (Ended => \A m \in run_media \ {failed} : m \in DOMAIN assigned) /\ (Ended => \A p \in run_pages \ {failed} : p \in DOMAIN converted)

\* the contents of the source media files of the run that decode to the output path dst
SameNameContents(dst) == {run0[m] : m \in {x \in run_media : Resolve(media_dst(x)) = dst}}

\* C6: the run aborts with the collision error only when more distinct-content source media
\* files decode to one output name than the disambiguation bound allows
C6_CollisionOnlyBeyondBound == status = "collision_error" => Cardinality(SameNameContents(Resolve(media_dst(failed)))) > DupLimit

\* C7: no run creates, modifies or deletes a file under the source pages root or the source
\* media root
C7_SourcesNeverMutated == Sources(disk) = src0

\* the page index holds both key forms of the page file p, with its output path
PageIndexed(p) == \A k \in page_keys(p) : k \in DOMAIN page_index /\ page_index[k] = out_md_rel(p)

\* the media index holds every key of the media file m, with the output path m was given
MediaIndexed(m) == m \in DOMAIN assigned /\ \A k \in key_variants(m) : k \in DOMAIN media_index /\ Resolve(PathJoin(out_media, media_index[k])) \in {assigned[x].final : x \in DOMAIN assigned}

\* both indices are complete: every page file and every media file of the run is indexed
IndicesBuilt == media_todo = {} /\ (\A p \in run_pages : PageIndexed(p)) /\ (\A m \in run_media : MediaIndexed(m))

\* the text recorded for the page p is what the indices, as they are now, make of the page
ConvertedFromIndices(p) == converted[p].text = convert_dokuwiki_to_markdown(disk[p], rel_md_posix(p), page_index, media_index)

\* in the page loop and once a page has been converted, the indices are complete and every
\* converted text is a function of the page and the indices alone
C8_State == (status = "pages" \/ converted # <<>>) => IndicesBuilt /\ \A p \in DOMAIN converted : ConvertedFromIndices(p)

\* a step of the page loop leaves both indices as they are
C8_Frozen == status = "pages" => page_index' = page_index /\ media_index' = media_index

\* C8: in every run both indices are completely built before the first page is converted and
\* are not changed afterwards, so each page's converted text does not depend on the order in
\* which the pages are processed
C8_IndicesBeforePages == [](C8_State) /\ [][C8_Frozen]_vars

\* a page has been converted from complete indices that hold media, while another page awaits its turn
C8_Witness == status = "pages" /\ converted # <<>> /\ pages_todo # {} /\ DOMAIN media_index # {} /\ DOMAIN page_index # {}

(***************************************************************************)
(* Properties of link resolution                                           *)
(***************************************************************************)
\* the probe is an internal link that repl_link resolves as a page link
is_page_link(p) == probe_target(p) # <<>> /\ ~is_external(probe_target(p)) /\ ~is_media_link(probe_target(p))

\* the page part of the probe's target: decoded, without query and anchor
page_name(p) == target_base(probe_t_norm(p))
page_anchor(p) == target_anchor(probe_t_norm(p))

\* the probe is a page link that names a page
names_page(p) == is_page_link(p) /\ page_name(p) # <<>>

\* the identifier the target name stands for on the page cur: relative to the namespace of
\* cur when it has neither a leading colon nor a separator, else the name minus the leading colon
ExpectedId(name, cur) ==
    IF Head(name) = ":" THEN Tail(name)
    ELSE IF \E i \in 1..Len(name) : name[i] = ":" THEN name
    ELSE IF \E i \in 1..Len(cur) : cur[i] = ":" THEN SubSeq(cur, 1, RFind(cur, ":")) \o name
    ELSE name

\* the identifier with its runs of white space collapsed and its ends trimmed (line 262)
ExpectedIdOf(p) == Strip(CollapseWS(ExpectedId(page_name(p), probe_id(p))))

\* the output path of the page id: its index entry in either key form, else the path made from id
TargetOut(id, index) == IF id \in DOMAIN index THEN index[id] ELSE IF (<<":">> \o id) \in DOMAIN index THEN index[<<":">> \o id] ELSE Replace(id, ":", "/") \o MD

\* text is a Markdown link [label](path)
IsLink(text) == Len(text) >= 4 /\ text[1] = "[" /\ text[Len(text)] = ")" /\ Find(text, "]") > 0 /\ text[Find(text, "]") + 1] = "("

\* the path of the Markdown link text
LinkPath(text) == SubSeq(text, Find(text, "]") + 2, Len(text) - 1)

\* path is relative and leads from the directory dir to the file out
LeadsTo(path, dir, out) == path # <<>> /\ Head(path) # "/" /\ normpath(posix_join(dir, path)) = normpath(out)

\* text is a link whose path leads from dir to out and ends with the anchor
LinksTo(text, dir, out, anchor) == IsLink(text) /\ FromFirst(LinkPath(text), "#") = anchor /\ LeadsTo(Before(LinkPath(text), "#"), dir, out)

\* the identifier resolve_page_target derives is the expected one
C9_Id == (resolved # <<>> /\ names_page(probe)) => resolved[1].id = ExpectedIdOf(probe)

\* the link repl_link emits leads from the note's directory to the output path of the resolved page
C9_Path == (emitted # <<>> /\ names_page(probe)) => LinksTo(emitted[1], dirname(probe.note), TargetOut(ExpectedIdOf(probe), probe.index), page_anchor(probe))

\* [[c]] on the page a:b:page becomes a link to c.md
C9_Example == (emitted # <<>> /\ probe.text = <<"c">> /\ probe.note = <<"a", "/", "b", "/", "p", "a", "g", "e", ".", "m", "d">>) => emitted[1] = <<"[", "c", "]", "(", "c", ".", "m", "d", ")">>

\* C9: on a page ns:page a target with no leading colon and no separator resolves to ns:target
\* (to target when the page has no namespace), a target with a leading colon or a separator
\* resolves to itself minus the leading colon, and the emitted link path is the relative path
\* from the page's output directory to the resolved page's output path
C9_PageLinkResolution == C9_Id /\ C9_Path /\ C9_Example

\* [[c]] on a:b:page has been resolved to the indexed page a:b:c and emitted as a link to c.md
C9_Witness == probe # <<>> /\ probe.text = <<"c">> /\ probe.note = <<"a", "/", "b", "/", "p", "a", "g", "e", ".", "m", "d">> /\ <<"a", ":", "b", ":", "c">> \in DOMAIN probe.index /\ resolved # <<>> /\ resolved[1].id = <<"a", ":", "b", ":", "c">> /\ emitted = <<<<"[", "c", "]", "(", "c", ".", "m", "d", ")">>>>

\* the identifier the probe resolves to is in the page index in neither key form
Dangling(p) == resolved_id(probe_t_norm(p), probe_id(p)) \notin DOMAIN p.index /\ (<<":">> \o resolved_id(probe_t_norm(p), probe_id(p))) \notin DOMAIN p.index

\* the link path made from the identifier the probe resolves to
SynthesizedPath(p) == relposix(dirname(p.note), Replace(resolved_id(probe_t_norm(p), probe_id(p)), ":", "/") \o MD) \o page_anchor(p)

\* text is a link whose path is the one made from the probe's identifier
IsSynthesizedLink(text, p) == IsLink(text) /\ LinkPath(text) = SynthesizedPath(p)

\* C10 as stated: every non-empty internal link target whose identifier the page index lacks
\* is emitted as a link [label](path) with the path made from the identifier
C10_EveryDanglingTarget == (emitted # <<>> /\ probe_target(probe) # <<>> /\ ~is_external(probe_target(probe)) /\ Dangling(probe)) => IsSynthesizedLink(emitted[1], probe)

\* C10: every internal link target that names a page (non-empty once query and anchor are
\* removed, no file extension other than .md) and whose identifier the page index lacks is
\* emitted as a link [label](path) with the path made from the identifier: colons to slashes,
\* .md appended, relative to the page's output directory, anchor re-appended
C10_DanglingPageLink == (emitted # <<>> /\ names_page(probe) /\ Dangling(probe)) => IsSynthesizedLink(emitted[1], probe)

\* [[c#sec]] on a:b:page, with no page indexed, has been emitted as a link to c.md#sec
C10_Witness == probe # <<>> /\ probe.text = <<"c", "#", "s", "e", "c">> /\ probe.note = <<"a", "/", "b", "/", "p", "a", "g", "e", ".", "m", "d">> /\ DOMAIN probe.index = {} /\ emitted = <<<<"[", "c", "]", "(", "c", ".", "m", "d", "#", "s", "e", "c", ")">>>>

(***************************************************************************)
(* Properties of the two indices                                           *)
(***************************************************************************)
\* the media loop of the run has visited every source media file and ended normally
MediaScanned == runs >= 1 /\ media_todo = {} /\ status \in {"pages", "done"}

\* the key k leads, in the media index, to the output file the source media file m was given
KeyLeadsTo(k, m) == k \in DOMAIN media_index /\ Resolve(PathJoin(out_media, media_index[k])) = assigned[m].final

\* C11: once every source media file has been scanned, every key variant registered for a
\* source file maps in the media index to that file's own final output path, also when
\* several source files decode to the same name
C11_KeysLeadToOwnFile == MediaScanned => \A m \in DOMAIN assigned : \A k \in key_variants(m) : KeyLeadsTo(k, m)

\* the path, resolved under notes/, that the page index holds for the key k
IndexedNote(k) == Resolve(PathJoin(out_notes, page_index[k]))

\* C13: for every source page, the path the page index holds for the page's identifier, bare
\* and with a leading colon, is the path under notes/ at which the page's note is written
C13_IndexedPathIsWrittenPath == \A p \in DOMAIN converted : \A k \in page_keys(p) : k \in DOMAIN page_index => IndexedNote(k) = converted[p].dst


(***************************************************************************)
(* Attachment links against embeds                                         *)
(***************************************************************************)
\* the probe is an internal link whose target has a file extension other than .md
is_attachment_link(p) == probe_target(p) # <<>> /\ ~is_external(probe_target(p)) /\ is_media_link(probe_target(p))

\* C12: for a link whose target has a non-Markdown file extension, the text repl_link emits
\* for [[target|title]] is the text repl_media emits for {{target|title}}
C12_AttachmentLinkAsEmbed == (emitted # <<>> /\ embedded # <<>> /\ is_attachment_link(probe)) => emitted[1] = embedded[1]

=============================================================================
